---- MODULE Spec2Model ----
(***************************************************************************)
(* blog3: the slug identity and history subsystem of src/main.rs.          *)
(*                                                                         *)
(* The database (tables post, slug, old) is the state.  publish_handler    *)
(* and update_handler each run inside one sqlx transaction; a handler that *)
(* returns before tx.commit() drops the transaction, which rolls it back.  *)
(* Strings are sequences of one-character strings, so that the LIKE prefix *)
(* match, the decimal formatting of the collision count and the date       *)
(* suffix are computed character by character as the code computes them.   *)
(***************************************************************************)
EXTENDS Integers, Sequences, FiniteSets, TLC

VARIABLES
    post,   \* table post: id -> [title, subtitle, published, content]
    slug,   \* table slug: slug -> [id, newslug]
    old,    \* table old: sequence of [id, data]
    now,    \* the last instant read from the clock by Local::now()
    last,   \* the last request handled and its response
    run,    \* the current run of successful publishes of one title on one date
    conns,  \* the transaction of each pool connection (concurrent requests)
    probe   \* the argument and the result of a function applied on its own

vars == <<post, slug, old, now, last, run, conns, probe>>

-----------------------------------------------------------------------------
(* Bounds of the model. *)

MaxPosts == 3       \* publishes that may commit
MaxOld == 2         \* updates that may commit (rows of the archive table)
MaxWrites == 3      \* requests that may commit
MaxTime == 2        \* the last instant the clock reaches
MaxTail == 2        \* characters of a long title after its run of "a"

-----------------------------------------------------------------------------
(* Values. *)

None == <<>>                        \* Option::None, SQL NULL
Some(v) == <<v>>                    \* Option::Some

Ids == 1..MaxPosts                  \* the Uuid values in use
Titles == { <<"a">>, <<"A">>, <<"b">> }
\* The request bodies: Publish { title, subtitle, content }.
Requests ==
    { [title |-> <<"a">>, subtitle |-> None, content |-> "x"],
      [title |-> <<"A">>, subtitle |-> Some("s"), content |-> "y"],
      [title |-> <<"b">>, subtitle |-> None, content |-> "y"] }

ClockStart == [year |-> 2024, month |-> 3, day |-> 5]

\* The calendar date of instant t: two instants of the clock in one day.
DateOf(t) == [ClockStart EXCEPT !.day = @ + (t \div 2)]

-----------------------------------------------------------------------------
(* Strings. *)

Digit(d) == <<"0", "1", "2", "3", "4", "5", "6", "7", "8", "9">>[d + 1]

\* format!("{}", n) of an unsigned number.
RECURSIVE Decimal(_)
Decimal(n) == IF n < 10 THEN <<Digit(n)>> ELSE Decimal(n \div 10) \o <<Digit(n % 10)>>

\* format!("{:0w$}", n): Decimal(n) padded on the left with zeros to width w.
RECURSIVE Zeros(_)
Zeros(k) == IF k <= 0 THEN <<>> ELSE <<"0">> \o Zeros(k - 1)
Padded(n, w) == Zeros(w - Len(Decimal(n))) \o Decimal(n)

\* s starts with p.
IsPrefix(p, s) == Len(p) <= Len(s) /\ SubSeq(s, 1, Len(p)) = p

\* The UTF-8 length of one character.
ByteLen(c) == IF c = "é" THEN 2 ELSE 1

RECURSIVE Bytes(_)
Bytes(s) == IF s = <<>> THEN 0 ELSE ByteLen(Head(s)) + Bytes(Tail(s))

\* The number of leading characters of s that end at or before byte n.
RECURSIVE CharsWithin(_, _)
CharsWithin(s, n) ==
    IF s = <<>> \/ ByteLen(Head(s)) > n THEN 0
    ELSE 1 + CharsWithin(Tail(s), n - ByteLen(Head(s)))

\* Byte n is a character boundary of s (str::is_char_boundary).
IsCharBoundary(s, n) == Bytes(SubSeq(s, 1, CharsWithin(s, n))) = n

LowerCase == [c \in {"a", "b", "e", "0", "1", "2", "3", "4", "5", "6", "7", "8", "9"} |-> c]
UpperCase == [c \in {"A", "B", "E"} |->
                 IF c = "A" THEN "a" ELSE IF c = "B" THEN "b" ELSE "e"]

\* deunicode_char of a non-ASCII character.
Deunicode(c) == IF c = "é" THEN "e" ELSE "-"

\* slug::slugify: ASCII letters and digits in lower case, every other run of
\* characters one "-", no leading "-" and the trailing "-" popped.
RECURSIVE SlugifyFrom(_, _)
SlugifyFrom(s, prevIsDash) ==
    IF s = <<>> THEN <<>>
    ELSE LET c == IF ByteLen(Head(s)) > 1 THEN Deunicode(Head(s)) ELSE Head(s)
         IN  IF c \in DOMAIN LowerCase
                THEN <<LowerCase[c]>> \o SlugifyFrom(Tail(s), FALSE)
             ELSE IF c \in DOMAIN UpperCase
                THEN <<UpperCase[c]>> \o SlugifyFrom(Tail(s), FALSE)
             ELSE IF prevIsDash THEN SlugifyFrom(Tail(s), TRUE)
             ELSE <<"-">> \o SlugifyFrom(Tail(s), TRUE)

Slugify(s) ==
    LET r == SlugifyFrom(s, TRUE)
    IN  IF r # <<>> /\ r[Len(r)] = "-" THEN SubSeq(r, 1, Len(r) - 1) ELSE r

TitleCut == 26

\* Post::slug indexes the title by bytes: &self.title[..26] panics when byte
\* 26 is not a character boundary.
SlugPanics(p) == Bytes(p.title) > TitleCut /\ ~IsCharBoundary(p.title, TitleCut)

\* Post::slug.
Slug(p) ==
    LET short == IF Bytes(p.title) > TitleCut
                 THEN SubSeq(p.title, 1, CharsWithin(p.title, TitleCut))
                 ELSE p.title
        d == DateOf(p.published)
    IN  Slugify(short) \o <<"-">> \o Padded(d.year, 4) \o <<"-">> \o Padded(d.month, 2)
            \o <<"-">> \o Padded(d.day, 2)

-----------------------------------------------------------------------------
(* The database.  db is a record [post, slug, old] of the three tables; a   *)
(* storage call returns [ok, db]: ok is FALSE when the statement fails, and *)
(* a failed statement changes nothing.                                      *)

Database(p, s, o) == [post |-> p, slug |-> s, old |-> o]

Done(db) == [ok |-> TRUE, db |-> db]
Failed(db) == [ok |-> FALSE, db |-> db]

\* The key constraints of the schema: post.id and slug.slug are unique.
PostKeyTaken(db, id) == id \in DOMAIN db.post
SlugKeyTaken(db, s) == s \in DOMAIN db.slug

\* App::insert_post.
InsertPost(db, p) ==
    IF PostKeyTaken(db, p.id) THEN Failed(db)
    ELSE Done([db EXCEPT !.post = @ @@ (p.id :> p)])

\* App::insert_slug: the new row has no newslug.
InsertSlug(db, s, id) ==
    IF SlugKeyTaken(db, s) THEN Failed(db)
    ELSE Done([db EXCEPT !.slug = @ @@ (s :> [id |-> id, newslug |-> None])])

\* App::get_newest_slug: None, or (id, newslug.unwrap_or(slug)).
GetNewestSlug(db, s) ==
    IF s \in DOMAIN db.slug
    THEN Some([id |-> db.slug[s].id,
               newslug |-> IF db.slug[s].newslug = None THEN s ELSE db.slug[s].newslug[1]])
    ELSE None

\* The query has no where clause: some post is found whatever the id.
FindPostAny(db, id) ==
    IF DOMAIN db.post = {} THEN None ELSE Some(db.post[CHOOSE i \in DOMAIN db.post : TRUE])

\* App::find_post.
FindPost(db, id) == IF id \in DOMAIN db.post THEN Some(db.post[id]) ELSE None

\* serde_json::to_string(&post): the five fields of the post in order.
ToJson(p) == <<p.id, p.title, p.subtitle, p.published, p.content>>

\* The archive keeps one row for each post: the row of the post is replaced.
InsertOldReplacing(db, p) ==
    Done([db EXCEPT !.old = SelectSeq(@, LAMBDA r : r.id # p.id)
                                \o <<[id |-> p.id, data |-> ToJson(p)]>>])

\* App::insert_old.
InsertOld(db, p) == Done([db EXCEPT !.old = Append(@, [id |-> p.id, data |-> ToJson(p)])])

\* published is not among the columns set: the row keeps its timestamp.
UpdatePostKeepsPublished(db, p) ==
    Done([db EXCEPT !.post =
            [i \in DOMAIN @ |-> IF i = p.id THEN [p EXCEPT !.published = db.post[i].published]
                                ELSE @[i]]])

\* App::update_post: title, subtitle, published and content of the row with
\* p.id are overwritten.
UpdatePost(db, p) ==
    Done([db EXCEPT !.post = [i \in DOMAIN @ |-> IF i = p.id THEN p ELSE @[i]]])

\* slug like '{s}%': slugs hold only a-z, 0-9 and "-", so the pattern has no
\* wildcard but the trailing one.
Like(k, s) == IsPrefix(s, k)

\* App::find_ids_with_similar_slugs: the matching rows collected into a
\* HashMap keyed by post id.  A later row of the same id replaces an earlier
\* one and the query has no ORDER BY, so a post with several matching slugs
\* keeps any one of them: the set of the maps the call may return.
FindIdsWithSimilarSlugs(db, s) ==
    LET rows == {k \in DOMAIN db.slug : Like(k, s)}
        ids == {db.slug[k].id : k \in rows}
    IN  {m \in [ids -> rows] : \A i \in ids : db.slug[m[i]].id = i}

\* The query compares with slug = $1: only the rows of the slug s count.
CountIdsWithEqualSlugs(db, s) ==
    Cardinality({db.slug[k].id : k \in {k \in DOMAIN db.slug : k = s}})

\* The rows are counted, not collected by post id.
CountSlugRows(db, s) == Cardinality({k \in DOMAIN db.slug : Like(k, s)})

\* App::count_ids_with_similar_slugs: the len() of that map.
CountIdsWithSimilarSlugs(db, s) ==
    Cardinality(DOMAIN (CHOOSE m \in FindIdsWithSimilarSlugs(db, s) : TRUE))

\* Only the rows that have no newslug yet are pointed at s.
UpdateOldSlugsNullOnly(db, id, s) ==
    Done([db EXCEPT !.slug =
            [k \in DOMAIN db.slug |->
                IF db.slug[k].id = id /\ db.slug[k].newslug = None
                THEN [db.slug[k] EXCEPT !.newslug = Some(s)]
                ELSE db.slug[k]]])

\* The where clause compares the slug column: only the row s is pointed at s.
UpdateOldSlugsWrongColumn(db, id, s) ==
    Done([db EXCEPT !.slug =
            [k \in DOMAIN db.slug |->
                IF k = s THEN [db.slug[k] EXCEPT !.newslug = Some(s)] ELSE db.slug[k]]])

\* The row of the slug s itself is left as it is: where id = $2 and slug != $1.
UpdateOldSlugsOthersOnly(db, id, s) ==
    Done([db EXCEPT !.slug =
            [k \in DOMAIN db.slug |->
                IF db.slug[k].id = id /\ k # s
                THEN [db.slug[k] EXCEPT !.newslug = Some(s)]
                ELSE db.slug[k]]])

\* The other slugs of the post are deleted: delete from slug where id = $2
\* and slug != $1.
UpdateOldSlugsDeleting(db, id, s) ==
    Done([db EXCEPT !.slug =
            [k \in {k \in DOMAIN db.slug : db.slug[k].id # id \/ k = s} |-> db.slug[k]]])

\* The statement has no where clause: the slugs of every post are pointed at s.
UpdateOldSlugsEveryPost(db, id, s) ==
    Done([db EXCEPT !.slug =
            [k \in DOMAIN db.slug |-> [db.slug[k] EXCEPT !.newslug = Some(s)]]])

\* App::update_old_slugs: update slug set newslug = $1 where id = $2.
UpdateOldSlugs(db, id, s) ==
    Done([db EXCEPT !.slug =
            [k \in DOMAIN db.slug |->
                IF db.slug[k].id = id THEN [db.slug[k] EXCEPT !.newslug = Some(s)]
                ELSE db.slug[k]]])

\* tx.commit(): the transaction's writes become the database.
Commit(db, w) == w

\* The writes are not in a transaction: they stay when the handler returns.
RollbackNothing(db, w) == w

\* A handler that returns before tx.commit() drops the transaction, and the
\* dropped transaction is rolled back: the database stays as it was.
Rollback(db, w) == db

-----------------------------------------------------------------------------
(* The handlers.  fail names the storage call that fails in this request    *)
(* (by the name return_500! logs it under), or "none".  A handler gives     *)
(* [status, slug, db, tx]: its answer, the database it leaves and the       *)
(* database as its transaction saw it when the handler returned.            *)

PublishFaults ==
    {"none", "new_post_transaction", "insert_post", "new_post_slug", "insert_slug",
     "new_post_transaction_commit"}

UpdateFaults ==
    {"none", "update_post_transaction", "select_existing", "insert_old",
     "update_existing", "new_post_slug", "update_slug", "update_old_slug",
     "update_post_transaction_commit"}

\* A storage call on the transaction's database w: it fails, leaving w as it
\* is, when the fault of this request is this call, and gives r otherwise.
Try(fail, name, w, r) == IF fail = name THEN Failed(w) ELSE r

\* The handler returns without tx.commit().
Dropped(status, db, w) ==
    [status |-> status, slug |-> None, db |-> Rollback(db, w), tx |-> w]

\* return_500!.
Return500(db, w) == Dropped("error", db, w)

\* tx.commit() and the Json({id, slug}) response.
Committed(s, db, w) ==
    [status |-> "ok", slug |-> Some(s), db |-> Commit(db, w), tx |-> w]

\* The Post both handlers build from the request body and Local::now().
NewPost(id, req, t) ==
    [id |-> id, title |-> req.title, subtitle |-> req.subtitle, published |-> t,
     content |-> req.content]

\* The collision count taken one too high.
PublishSlugOffByOne(s, n) == IF n > 0 THEN s \o <<"-">> \o Decimal(n + 1) ELSE s

\* publish_handler: the slug of a new post, n posts having similar slugs.
PublishSlug(s, n) == IF n > 0 THEN s \o <<"-">> \o Decimal(n) ELSE s

\* The post is committed before its slug is inserted.
PublishHandlerCommitsPost(db, id, req, t, fail) ==
    LET p == NewPost(id, req, t)
        w1 == Try(fail, "insert_post", db, InsertPost(db, p))
        s == Slug(p)
        final == PublishSlug(s, CountIdsWithSimilarSlugs(w1.db, s))
        w2 == Try(fail, "insert_slug", w1.db, InsertSlug(w1.db, final, id))
    IN  IF fail = "new_post_transaction" THEN Return500(db, db)
        ELSE IF ~w1.ok THEN Return500(db, w1.db)
        ELSE IF SlugPanics(p) THEN Dropped("panic", w1.db, w1.db)
        ELSE IF fail = "new_post_slug" THEN Return500(w1.db, w1.db)
        ELSE IF ~w2.ok THEN Return500(w1.db, w2.db)
        ELSE IF fail = "new_post_transaction_commit" THEN Return500(w1.db, w2.db)
        ELSE Committed(final, db, w2.db)

\* publish_handler.
PublishHandler(db, id, req, t, fail) ==
    LET p == NewPost(id, req, t)
        w1 == Try(fail, "insert_post", db, InsertPost(db, p))
        s == Slug(p)
        final == PublishSlug(s, CountIdsWithSimilarSlugs(w1.db, s))
        w2 == Try(fail, "insert_slug", w1.db, InsertSlug(w1.db, final, id))
    IN  IF fail = "new_post_transaction" THEN Return500(db, db)
        ELSE IF ~w1.ok THEN Return500(db, w1.db)
        ELSE IF SlugPanics(p) THEN Dropped("panic", db, w1.db)
        ELSE IF fail = "new_post_slug" THEN Return500(db, w1.db)
        ELSE IF ~w2.ok THEN Return500(db, w2.db)
        ELSE IF fail = "new_post_transaction_commit" THEN Return500(db, w2.db)
        ELSE Committed(final, db, w2.db)

\* The post's own similar slug is not reused: the base slug is taken.
UpdateSlugNoReuse(s, m, id) ==
    IF Cardinality(DOMAIN m) > 0 /\ id \notin DOMAIN m
    THEN s \o <<"-">> \o Decimal(Cardinality(DOMAIN m))
    ELSE s

\* update_handler: the slug of the updated post id, m being the similar
\* slugs by post id.
UpdateSlug(s, m, id) ==
    IF Cardinality(DOMAIN m) > 0 /\ id \notin DOMAIN m
    THEN s \o <<"-">> \o Decimal(Cardinality(DOMAIN m))
    ELSE IF id \in DOMAIN m THEN m[id]
    ELSE s

\* update_handler from the similar slugs m on: p is the new Post, w the
\* transaction's database after update_post.
UpdateRename(db, w, p, m, fail) ==
    LET renaming == p.id \notin DOMAIN m
        final == UpdateSlug(Slug(p), m, p.id)
        w3 == IF renaming
              THEN Try(fail, "update_slug", w, InsertSlug(w, final, p.id))
              ELSE Done(w)
        w4 == Try(fail, "update_old_slug", w3.db, UpdateOldSlugs(w3.db, p.id, final))
    IN  IF ~w3.ok THEN Return500(db, w3.db)
        ELSE IF ~w4.ok THEN Return500(db, w4.db)
        ELSE IF fail = "update_post_transaction_commit" THEN Return500(db, w4.db)
        ELSE Committed(final, db, w4.db)

\* update_handler: the responses it may give (one for each map that
\* find_ids_with_similar_slugs may return).
UpdateHandler(db, id, req, t, fail) ==
    LET existing == FindPost(db, id)
        p == NewPost(existing[1].id, req, t)
        w1 == Try(fail, "insert_old", db, InsertOld(db, existing[1]))
        w2 == Try(fail, "update_existing", w1.db, UpdatePost(w1.db, p))
    IN  IF fail \in {"update_post_transaction", "select_existing"} THEN {Return500(db, db)}
        ELSE IF existing = None THEN {Dropped("not_found", db, db)}
        ELSE IF ~w1.ok THEN {Return500(db, w1.db)}
        ELSE IF ~w2.ok THEN {Return500(db, w2.db)}
        ELSE IF SlugPanics(p) THEN {Dropped("panic", db, w2.db)}
        ELSE IF fail = "new_post_slug" THEN {Return500(db, w2.db)}
        ELSE {UpdateRename(db, w2.db, p, m, fail) :
                m \in FindIdsWithSimilarSlugs(w2.db, Slug(p))}

\* A slug whose post is missing is answered as not found.
PostHandlerMissingIsNotFound(db, s) ==
    LET newest == GetNewestSlug(db, s)
        found == FindPost(db, newest[1].id)
    IN  IF newest = None THEN [status |-> "not_found", location |-> None, post |-> None]
        ELSE IF newest[1].newslug # s
            THEN [status |-> "moved", location |-> Some(newest[1].newslug), post |-> None]
        ELSE IF found = None THEN [status |-> "not_found", location |-> None, post |-> None]
        ELSE [status |-> "ok", location |-> None, post |-> found]

\* post_handler: not found, a permanent redirect to the newest slug, the post
\* rendered, or the error of a slug whose post is missing.
PostHandler(db, s) ==
    LET newest == GetNewestSlug(db, s)
        found == FindPost(db, newest[1].id)
    IN  IF newest = None THEN [status |-> "not_found", location |-> None, post |-> None]
        ELSE IF newest[1].newslug # s
            THEN [status |-> "moved", location |-> Some(newest[1].newslug), post |-> None]
        ELSE IF found = None THEN [status |-> "error", location |-> None, post |-> None]
        ELSE [status |-> "ok", location |-> None, post |-> found]

-----------------------------------------------------------------------------
(* The state machine: requests are handled one at a time.  Each request     *)
(* reads the clock once, at an instant not before the last one read.        *)

DB == Database(post, slug, old)

\* Uuid::new_v4(): an id no post has.
NewId == Cardinality(DOMAIN post) + 1

Writes == Cardinality(DOMAIN post) + Len(old)

\* The slugs of post id.
SlugsOf(db, id) == {k \in DOMAIN db.slug : db.slug[k].id = id}

\* The slug that post id's slugs resolve to, when they agree on one.
CanonicalOf(db, id) ==
    LET c == {GetNewestSlug(db, k)[1].newslug : k \in SlugsOf(db, id)}
    IN  IF Cardinality(c) = 1 THEN Some(CHOOSE x \in c : TRUE) ELSE None

\* What last records of a request: the handler, the status it answered with
\* and the slug in the answer; the post id of a request that was not an
\* error and the body of one that was committed; whether a slug row was
\* inserted, the slug the post's slugs resolved to before, and whether a
\* transaction that was not committed had written rows.
Record(op, id, req, r) ==
    [op |-> op, status |-> r.status, slug |-> r.slug,
     id |-> IF r.status \in {"ok", "not_found"} THEN id ELSE 0,
     req |-> IF r.status = "ok" THEN Some(req) ELSE None,
     minted |-> r.status = "ok" /\ DOMAIN r.db.slug # DOMAIN slug,
     was |-> IF r.status = "ok" THEN CanonicalOf(DB, id) ELSE None,
     wrote |-> r.status # "ok" /\ r.tx # DB]

NoRun == [title |-> <<>>, date |-> ClockStart, base |-> <<>>, slugs |-> <<>>]

\* run after publish_handler answered r to a request with title at instant t:
\* a run goes on with the next successful publish of its title on its date,
\* and a new run starts where no slug has the base slug as a prefix.
RunAfter(title, t, r) ==
    IF r.status # "ok" THEN run
    ELSE IF run.slugs # <<>> /\ run.title = title /\ run.date = DateOf(t)
        THEN [run EXCEPT !.slugs = Append(@, r.slug[1])]
    ELSE LET base == Slug([title |-> title, published |-> t])
         IN  IF \A k \in DOMAIN slug : ~IsPrefix(base, k)
             THEN [title |-> title, date |-> DateOf(t), base |-> base,
                   slugs |-> <<r.slug[1]>>]
             ELSE NoRun

NoLast ==
    [op |-> "none", status |-> "none", slug |-> None, id |-> 0, req |-> None,
     minted |-> FALSE, was |-> None, wrote |-> FALSE]

\* No request is in a transaction of its own, no function is applied alone.
NoConns == <<>>
NoProbe == <<>>

Init ==
    /\ post = <<>>
    /\ slug = <<>>
    /\ old = <<>>
    /\ now = 0
    /\ last = NoLast
    /\ run = NoRun
    /\ conns = NoConns
    /\ probe = NoProbe

\* A publish request with a body of reqs and a storage fault of faults.
PublishFrom(reqs, faults) ==
    /\ Cardinality(DOMAIN post) < MaxPosts
    /\ Writes < MaxWrites
    /\ \E req \in reqs, fail \in faults, t \in now..MaxTime :
          LET r == PublishHandler(DB, NewId, req, t, fail)
          IN  /\ post' = r.db.post
              /\ slug' = r.db.slug
              /\ old' = r.db.old
              /\ now' = t
              /\ last' = Record("publish", NewId, req, r)
              /\ run' = RunAfter(req.title, t, r)
    /\ UNCHANGED <<conns, probe>>

\* An update request with a body of reqs and a storage fault of faults.
UpdateFrom(reqs, faults) ==
    /\ Len(old) < MaxOld
    /\ Writes < MaxWrites
    /\ \E id \in Ids, req \in reqs, fail \in faults, t \in now..MaxTime :
          \E r \in UpdateHandler(DB, id, req, t, fail) :
              /\ post' = r.db.post
              /\ slug' = r.db.slug
              /\ old' = r.db.old
              /\ now' = t
              /\ last' = Record("update", id, req, r)
              /\ run' = IF r.status = "ok" THEN NoRun ELSE run
    /\ UNCHANGED <<conns, probe>>

Publish == PublishFrom(Requests, PublishFaults)

Update == UpdateFrom(Requests, UpdateFaults)

Next == Publish \/ Update

Spec == Init /\ [][Next]_vars

-----------------------------------------------------------------------------
(* Sequential requests on a storage that does not fail of itself: a request *)
(* answers with an error only when a statement breaks a constraint of the   *)
(* schema.  The titles include the text of another post's slug, so that the *)
(* base slug of one title is a prefix of the base slug of another.          *)

SlugText(title, t) == Slug([title |-> title, published |-> t])

SeqRequests ==
    { [title |-> <<"a">>, subtitle |-> None, content |-> "x"],
      [title |-> SlugText(<<"a">>, 0), subtitle |-> None, content |-> "x"],
      [title |-> SlugText(<<"a">>, 2), subtitle |-> None, content |-> "y"] }

PublishSeq == PublishFrom(SeqRequests, {"none"})

UpdateSeq == UpdateFrom(SeqRequests, {"none"})

NextSeq == PublishSeq \/ UpdateSeq

SpecSeq == Init /\ [][NextSeq]_vars

-----------------------------------------------------------------------------
(* Steps and states the properties speak of. *)

\* The step is a committed update.
UpdatedStep == last'.op = "update" /\ last'.status = "ok"

\* The slug s resolves to (get_newest_slug's newslug); s is a row of db.
Resolve(db, s) == GetNewestSlug(db, s)[1].newslug

\* Reading s renders the post id / redirects to the slug c.
Renders(db, s, id) ==
    /\ PostHandler(db, s).status = "ok"
    /\ id \in DOMAIN db.post
    /\ PostHandler(db, s).post = Some(db.post[id])
Redirects(db, s, c) ==
    PostHandler(db, s).status = "moved" /\ PostHandler(db, s).location = Some(c)

\* The slugs of post id that have the string base as a prefix.
SimilarOf(db, id, base) == {k \in SlugsOf(db, id) : IsPrefix(base, k)}

-----------------------------------------------------------------------------
(* C1: the successful publishes of one title on one date, from a state where *)
(* no slug has the base slug as a prefix, return base, base-1, base-2, ... in *)
(* the order of creation, and the slugs returned are pairwise distinct.      *)
C1_PublishRunNumbered ==
    /\ \A k \in 1..Len(run.slugs) :
          run.slugs[k] = IF k = 1 THEN run.base
                         ELSE run.base \o <<"-">> \o Decimal(k - 1)
    /\ \A j, k \in 1..Len(run.slugs) : run.slugs[j] = run.slugs[k] => j = k

C1_Witness == Len(run.slugs) >= 3 /\ last.op = "publish" /\ last.status = "ok"

(* C2: reading any slug of a post either renders the post (the slug is the   *)
(* post's one canonical slug) or redirects to a slug that renders the post:  *)
(* no redirect leads to another redirect.                                    *)
C2_SingleHop ==
    /\ \A s \in DOMAIN slug :
          \/ Renders(DB, s, slug[s].id)
          \/ /\ PostHandler(DB, s).status = "moved"
             /\ Renders(DB, PostHandler(DB, s).location[1], slug[s].id)
    /\ \A s1, s2 \in DOMAIN slug :
          (slug[s1].id = slug[s2].id /\ Renders(DB, s1, slug[s1].id)
              /\ Renders(DB, s2, slug[s2].id)) => s1 = s2

C2_Witness ==
    \E id \in DOMAIN post :
        /\ Cardinality(SlugsOf(DB, id)) = 3
        /\ Cardinality({s \in SlugsOf(DB, id) : PostHandler(DB, s).status = "moved"}) = 2

(* C3 as stated: an update that changes the title to one whose base slug is  *)
(* none of the post's slugs returns a new canonical slug, and every slug the *)
(* post had resolves to it.                                                  *)
C3_Original ==
    [][(/\ UpdatedStep
        /\ post'[last'.id].title # post[last'.id].title
        /\ Slug(post'[last'.id]) \notin SlugsOf(DB, last'.id))
       => /\ last'.slug # CanonicalOf(DB, last'.id)
          /\ \A k \in SlugsOf(DB, last'.id) : Resolve(DB', k) = last'.slug[1]]_vars

(* C3 amended: an update whose base slug is a prefix of none of the post's   *)
(* slugs returns a slug that was no row before and is the post's afterwards, *)
(* and every slug the post had redirects to it.                              *)
C3_RenameRetargetsAll ==
    [][(UpdatedStep /\ SimilarOf(DB, last'.id, Slug(post'[last'.id])) = {})
       => /\ last'.slug[1] \notin DOMAIN slug
          /\ last'.slug[1] \in SlugsOf(DB', last'.id)
          /\ Renders(DB', last'.slug[1], last'.id)
          /\ \A k \in SlugsOf(DB, last'.id) :
                Resolve(DB', k) = last'.slug[1] /\ Redirects(DB', k, last'.slug[1])]_vars

C3_Witness ==
    /\ last.op = "update" /\ last.status = "ok" /\ last.minted
    /\ Cardinality(SlugsOf(DB, last.id)) = 3
    /\ \A k \in SlugsOf(DB, last.id) : Resolve(DB, k) = last.slug[1]

(* C4: an update whose base slug is a prefix of a slug the post owns returns *)
(* that slug and inserts no slug row; when that slug was the canonical one,  *)
(* every slug of the post resolves as before and is answered as before.      *)
C4_ReuseOwnedSlug ==
    [][(UpdatedStep /\ SimilarOf(DB, last'.id, Slug(post'[last'.id])) # {})
       => /\ last'.slug[1] \in SimilarOf(DB, last'.id, Slug(post'[last'.id]))
          /\ DOMAIN slug' = DOMAIN slug
          /\ CanonicalOf(DB, last'.id) = last'.slug
                => \A k \in SlugsOf(DB, last'.id) :
                      /\ Resolve(DB', k) = Resolve(DB, k)
                      /\ PostHandler(DB', k).status = PostHandler(DB, k).status
                      /\ PostHandler(DB', k).location = PostHandler(DB, k).location]_vars

C4_Witness ==
    /\ last.op = "update" /\ last.status = "ok" /\ ~last.minted
    /\ last.was = last.slug
    /\ Cardinality(SlugsOf(DB, last.id)) = 2

(* C5 as stated: every post has exactly one slug row whose newslug is null.  *)
C5_Original ==
    \A id \in DOMAIN post :
        Cardinality({k \in SlugsOf(DB, id) : slug[k].newslug = None}) = 1

(* C6 as stated: an update leaves the published timestamp of the post as it  *)
(* was.                                                                      *)
C6_Original ==
    [][UpdatedStep => post'[last'.id].published = post[last'.id].published]_vars

(* C7: a committed update appends to the archive one row for the post, with  *)
(* the id, title, subtitle, timestamp and content the post row had before,   *)
(* leaves the rows the archive had as they were, and leaves in the post row  *)
(* the title, subtitle and content of the request and the instant of the     *)
(* update.                                                                   *)
C7_ArchivePreImage ==
    [][UpdatedStep
       => /\ Len(old') = Len(old) + 1
          /\ SubSeq(old', 1, Len(old)) = old
          /\ old'[Len(old')].id = last'.id
          /\ old'[Len(old')].data =
                <<last'.id, post[last'.id].title, post[last'.id].subtitle,
                  post[last'.id].published, post[last'.id].content>>
          /\ post'[last'.id] =
                [id |-> last'.id, title |-> last'.req[1].title,
                 subtitle |-> last'.req[1].subtitle, published |-> now',
                 content |-> last'.req[1].content]]_vars

C7_Witness ==
    /\ last.op = "update" /\ last.status = "ok"
    /\ Len(old) = 2 /\ old[1].id = old[2].id /\ old[1].data # old[2].data

(* C8: a publish or update in which a storage call fails leaves the post,    *)
(* slug and archive tables as they were before the request.                  *)
C8_FailureChangesNothing ==
    [][last'.status = "error" => post' = post /\ slug' = slug /\ old' = old]_vars

C8_Witness ==
    /\ last.status = "error" /\ last.wrote
    /\ last.op = "publish"
    /\ DOMAIN post # {}

(* C9: an update answers not-found only for an id that has no post row and   *)
(* then changes no table; an update of an id that has no post row is never   *)
(* committed.                                                                *)
C9_UpdateMissingPost ==
    [][/\ (last'.op = "update" /\ last'.status = "not_found")
            => /\ last'.id \notin DOMAIN post
               /\ post' = post /\ slug' = slug /\ old' = old
       /\ UpdatedStep => last'.id \in DOMAIN post]_vars

C9_Witness ==
    /\ last.op = "update" /\ last.status = "not_found"
    /\ last.id \notin DOMAIN post
    /\ DOMAIN post # {}

(* C10: the post of every slug row has a post row, every post row has a slug *)
(* row, and no slug is answered with the error of a missing post.            *)
C10_NoDanglingRows ==
    /\ \A s \in DOMAIN slug : slug[s].id \in DOMAIN post
    /\ \A id \in DOMAIN post : SlugsOf(DB, id) # {}
    /\ \A s \in DOMAIN slug : PostHandler(DB, s).status # "error"

C10_Witness ==
    /\ last.status = "error" /\ last.wrote
    /\ last.op = "update"
    /\ Cardinality(DOMAIN post) >= 2

-----------------------------------------------------------------------------
(* Post::slug applied on its own to a title and an instant.  The titles are *)
(* a run of "a" of a length about the cut, or no run, and a tail of up to   *)
(* MaxTail characters, one of them of two bytes.                            *)

RECURSIVE Repeat(_, _)
Repeat(c, k) == IF k <= 0 THEN <<>> ELSE <<c>> \o Repeat(c, k - 1)

RECURSIVE Tails(_)
Tails(k) ==
    IF k <= 0 THEN {<<>>}
    ELSE Tails(k - 1) \cup {Append(s, c) : s \in Tails(k - 1), c \in {"a", "é", " "}}

SlugTitles ==
    {Repeat("a", k) \o tail : k \in {0} \cup ((TitleCut - 3)..TitleCut), tail \in Tails(MaxTail)}

\* What a call of Post::slug gives: a panic of the thread or the String.
SlugResult(p) ==
    IF SlugPanics(p) THEN [panics |-> TRUE, slug |-> <<>>]
    ELSE [panics |-> FALSE, slug |-> Slug(p)]

InitSlug ==
    /\ post = <<>> /\ slug = <<>> /\ old = <<>>
    /\ now = 0 /\ last = NoLast /\ run = NoRun /\ conns = NoConns
    /\ \E title \in SlugTitles, t \in 0..MaxTime :
          probe = [fn |-> "slug", title |-> title, published |-> t, out |-> None]

ApplySlug ==
    /\ probe.out = None
    /\ probe' = [probe EXCEPT !.out = Some(SlugResult(probe))]
    /\ UNCHANGED <<post, slug, old, now, last, run, conns>>

NextSlug == ApplySlug

SpecSlug == InitSlug /\ [][NextSlug]_vars

-----------------------------------------------------------------------------
(* post_handler applied on its own to a slug, in every database of two      *)
(* slugs and two posts: a slug row may name a post that has no row, which   *)
(* no request leaves behind but post_handler has an answer for.             *)

ReadSlugs == {<<"p">>, <<"q">>}
ReadPaths == ReadSlugs \cup {<<"r">>}
ReadPosts == {1, 2}

ReadTables ==
    {Database(p, s, <<>>) :
        p \in UNION {[i -> {NewPost(0, CHOOSE r \in Requests : TRUE, 0)}] : i \in SUBSET ReadPosts},
        s \in UNION {[k -> [id : ReadPosts, newslug : {None} \cup {Some(x) : x \in ReadPaths}]] :
                        k \in SUBSET ReadSlugs}}

InitRead ==
    /\ \E db \in ReadTables :
          /\ post = [i \in DOMAIN db.post |-> [db.post[i] EXCEPT !.id = i]]
          /\ slug = db.slug
          /\ old = db.old
    /\ now = 0 /\ last = NoLast /\ run = NoRun /\ conns = NoConns
    /\ \E s \in ReadPaths : probe = [fn |-> "read", slug |-> s, out |-> None]

ReadPost ==
    /\ probe.out = None
    /\ probe' = [probe EXCEPT !.out = Some(PostHandler(DB, probe.slug))]
    /\ UNCHANGED <<post, slug, old, now, last, run, conns>>

NextRead == ReadPost

SpecRead == InitRead /\ [][NextRead]_vars

-----------------------------------------------------------------------------
(* Concurrent requests.  Each request runs its handler on a connection of   *)
(* the pool, inside the transaction that app.pool.begin() opens, and the    *)
(* handlers take their steps, one statement at a time, in any order.  The   *)
(* pool is a SqlitePool: a transaction sees the database as committed when  *)
(* its first statement ran and its own writes since; one transaction at a   *)
(* time holds the write lock, from its first writing statement to its end;  *)
(* a writing statement fails (SQLITE_BUSY) when another transaction holds   *)
(* the lock or has committed since this transaction's first statement.      *)
(* post, slug and old are the committed tables.  Each of the two            *)
(* connections runs one request.                                            *)

Conns == {1, 2}

TxRequests ==
    { [title |-> <<"a">>, subtitle |-> None, content |-> "x"],
      [title |-> <<"b">>, subtitle |-> None, content |-> "y"] }

\* A connection with no request: pc is the statement the handler is at, w
\* the database as the transaction sees it, writing the write lock, seen
\* the databases committed since the first statement of a reading request,
\* concurrent whether a request on the other connection ran meanwhile.
IdleTx ==
    [op |-> "idle", pc |-> "done", status |-> "idle", id |-> 0, req |-> None,
     path |-> None, w |-> None, writing |-> FALSE, existing |-> None, count |-> None,
     final |-> None, answer |-> None, seen |-> {}, concurrent |-> FALSE]

Active(t) == t.status = "active"

\* The handler returns: a transaction that was not committed is dropped.
Ended(t, status) ==
    [t EXCEPT !.status = status, !.pc = "done", !.w = None, !.writing = FALSE]

\* A statement of the transaction always finds the write lock free.
LockFreeAlways(c) == TRUE

\* No other transaction holds the write lock.
LockFree(c) == \A d \in Conns \ {c} : ~conns[d].writing

\* The transaction of t with its view of the database: the committed
\* database at its first statement.
OnTransaction(t) == IF t.w = None THEN [t EXCEPT !.w = Some(DB)] ELSE t

\* The statement runs on the pool: it sees the latest commit.
SeenOnPool(t) == DB

\* The database a reading statement sees: it runs on the transaction
\* (&mut *tx), t having its view.
SeenByRead(t) == t.w[1]

\* The transaction may write whatever was committed since its snapshot.
SnapshotAny(t) == TRUE

\* Nothing was committed since the transaction's first statement.
SnapshotCurrent(t) == IF t.w = None THEN TRUE ELSE t.w[1] = DB

\* The transaction of connection c may run a writing statement.
MayWrite(c) == conns[c].writing \/ (LockFree(c) /\ SnapshotCurrent(conns[c]))

WritingPcs == {"insert_post", "insert_old", "update_post", "insert_slug", "update_old_slugs"}
ReadingPcs == {"count", "find_post", "find_ids", "get_newest_slug", "read_post"}

\* The transaction after the statement gave r = [ok, db]: at pc next, or
\* ended by return_500!.
AfterWrite(t, r, next) ==
    IF r.ok THEN [t EXCEPT !.w = Some(r.db), !.pc = next, !.writing = TRUE]
    ELSE Ended(t, "error")

\* publish_handler, statement by statement, the transaction t being at pc.
PublishStatement(t, w) ==
    LET p == NewPost(t.id, t.req[1], now)
        n == CountIdsWithSimilarSlugs(w, Slug(p))
    IN  CASE t.pc = "insert_post" -> AfterWrite(t, InsertPost(w, p), "count")
          [] t.pc = "count" ->
                [t EXCEPT !.count = Some(n), !.final = Some(PublishSlug(Slug(p), n)),
                          !.pc = "insert_slug"]
          [] t.pc = "insert_slug" -> AfterWrite(t, InsertSlug(w, t.final[1], t.id), "commit")

\* update_handler, statement by statement: the transactions the statement
\* at pc may leave (one for each map find_ids_with_similar_slugs may return).
UpdateStatement(t, w) ==
    LET p == NewPost(t.id, t.req[1], now)
    IN  CASE t.pc = "find_post" ->
                IF FindPost(w, t.id) = None THEN {Ended(t, "not_found")}
                ELSE {[t EXCEPT !.existing = FindPost(w, t.id), !.pc = "insert_old"]}
          [] t.pc = "insert_old" -> {AfterWrite(t, InsertOld(w, t.existing[1]), "update_post")}
          [] t.pc = "update_post" -> {AfterWrite(t, UpdatePost(w, p), "find_ids")}
          [] t.pc = "find_ids" ->
                {[t EXCEPT !.count = Some(Cardinality(DOMAIN m)),
                           !.final = Some(UpdateSlug(Slug(p), m, t.id)),
                           !.pc = IF t.id \notin DOMAIN m THEN "insert_slug"
                                  ELSE "update_old_slugs"] :
                    m \in FindIdsWithSimilarSlugs(w, Slug(p))}
          [] t.pc = "insert_slug" ->
                {AfterWrite(t, InsertSlug(w, t.final[1], t.id), "update_old_slugs")}
          [] t.pc = "update_old_slugs" ->
                {AfterWrite(t, UpdateOldSlugs(w, t.id, t.final[1]), "commit")}

\* post_handler, statement by statement.
ReadStatement(t, w) ==
    LET newest == GetNewestSlug(w, t.path[1])
        found == FindPost(w, t.id)
        answer(status, location, p) ==
            [Ended(t, status) EXCEPT
                !.answer = Some([status |-> status, location |-> location, post |-> p])]
    IN  CASE t.pc = "get_newest_slug" ->
                IF newest = None THEN answer("not_found", None, None)
                ELSE IF newest[1].newslug # t.path[1]
                    THEN answer("moved", Some(newest[1].newslug), None)
                ELSE [t EXCEPT !.id = newest[1].id, !.pc = "read_post"]
          [] t.pc = "read_post" ->
                IF found = None THEN answer("error", None, None)
                ELSE answer("ok", None, found)

\* The transactions the statement at pc may leave, the statement seeing the
\* database w.
Statement(t, w) ==
    CASE t.op = "publish" -> {PublishStatement(t, w)}
      [] t.op = "update" -> UpdateStatement(t, w)
      [] t.op = "read" -> {ReadStatement(t, w)}

\* The ids of the posts of the requests in the connections.
TxIds == {conns[c].id : c \in {c \in Conns : conns[c].op \in {"publish", "update"}}}

\* A request starts on connection c as transaction t.
Started(c, t) ==
    /\ conns[c] = IdleTx
    /\ conns' = [d \in Conns |->
                    IF d = c THEN [t EXCEPT !.concurrent = \E e \in Conns : Active(conns[e])]
                    ELSE IF Active(conns[d]) THEN [conns[d] EXCEPT !.concurrent = TRUE]
                    ELSE conns[d]]
    /\ UNCHANGED <<post, slug, old, now, last, run, probe>>

\* The databases the concurrent requests start in: empty, after the publish
\* of one post, and after the publish of a second post of another title.
StartTables ==
    LET none == Database(<<>>, <<>>, <<>>)
        one == PublishHandler(none, 1, CHOOSE r \in TxRequests : r.title = <<"a">>, 0,
                              "none").db
        two == PublishHandler(one, 2, CHOOSE r \in TxRequests : r.title = <<"b">>, 0,
                              "none").db
    IN  {none, one, two}

InitTx ==
    /\ \E db \in StartTables : post = db.post /\ slug = db.slug /\ old = db.old
    /\ now = 0 /\ last = NoLast /\ run = NoRun /\ probe = NoProbe
    /\ conns = [c \in Conns |-> IdleTx]

\* publish_handler up to app.pool.begin(): the post gets an id no post has.
BeginPublish(c) ==
    /\ \E req \in TxRequests, id \in Ids \ (DOMAIN post \cup TxIds) :
          /\ \A i \in Ids \ (DOMAIN post \cup TxIds) : id <= i
          /\ Started(c, [IdleTx EXCEPT !.op = "publish", !.status = "active", !.id = id,
                                       !.req = Some(req), !.pc = "insert_post"])

\* update_handler up to app.pool.begin().
BeginUpdate(c) ==
    /\ \E req \in TxRequests, id \in DOMAIN post \cup {NewId} :
          Started(c, [IdleTx EXCEPT !.op = "update", !.status = "active", !.id = id,
                                    !.req = Some(req), !.pc = "find_post"])

\* post_handler up to app.pool.begin().
BeginRead(c) ==
    \E s \in DOMAIN slug \cup {<<"r">>} :
        Started(c, [IdleTx EXCEPT !.op = "read", !.status = "active", !.path = Some(s),
                                  !.pc = "get_newest_slug"])

\* A reading statement of the handler on connection c.
TxRead(c) ==
    /\ Active(conns[c]) /\ conns[c].pc \in ReadingPcs
    /\ \E t \in Statement(OnTransaction(conns[c]), SeenByRead(OnTransaction(conns[c]))) :
          conns' = [conns EXCEPT ![c] =
                      IF t.op = "read" /\ t.seen = {} THEN [t EXCEPT !.seen = {DB}] ELSE t]
    /\ UNCHANGED <<post, slug, old, now, last, run, probe>>

\* A writing statement of the handler on connection c.
TxWrite(c) ==
    /\ Active(conns[c]) /\ conns[c].pc \in WritingPcs
    /\ MayWrite(c)
    /\ \E t \in Statement(OnTransaction(conns[c]), OnTransaction(conns[c]).w[1]) :
          conns' = [conns EXCEPT ![c] = t]
    /\ UNCHANGED <<post, slug, old, now, last, run, probe>>

\* A writing statement that cannot have the write lock fails: return_500!.
TxBusy(c) ==
    /\ Active(conns[c]) /\ conns[c].pc \in WritingPcs
    /\ ~MayWrite(c)
    /\ conns' = [conns EXCEPT ![c] = Ended(@, "error")]
    /\ UNCHANGED <<post, slug, old, now, last, run, probe>>

\* tx.commit() and the Json({id, slug}) response.
TxCommit(c) ==
    /\ Active(conns[c]) /\ conns[c].pc = "commit"
    /\ post' = Commit(DB, conns[c].w[1]).post
    /\ slug' = Commit(DB, conns[c].w[1]).slug
    /\ old' = Commit(DB, conns[c].w[1]).old
    /\ conns' = [d \in Conns |->
                    IF d = c THEN Ended(conns[c], "ok")
                    ELSE IF Active(conns[d]) /\ conns[d].seen # {}
                        THEN [conns[d] EXCEPT !.seen = @ \cup {Commit(DB, conns[c].w[1])}]
                    ELSE conns[d]]
    /\ UNCHANGED <<now, last, run, probe>>

\* tx.commit() fails: return_500!, the transaction is rolled back.
TxCommitFails(c) ==
    /\ Active(conns[c]) /\ conns[c].pc = "commit"
    /\ conns' = [conns EXCEPT ![c] = Ended(@, "error")]
    /\ UNCHANGED <<post, slug, old, now, last, run, probe>>

NextTx ==
    \E c \in Conns :
        \/ BeginPublish(c)
        \/ BeginUpdate(c)
        \/ BeginRead(c)
        \/ TxRead(c)
        \/ TxWrite(c)
        \/ TxBusy(c)
        \/ TxCommit(c)
        \/ TxCommitFails(c)

SpecTx == InitTx /\ [][NextTx]_vars

-----------------------------------------------------------------------------
\* The date suffix of a slug made at instant t.
DateText(t) ==
    <<"-">> \o Padded(DateOf(t).year, 4) \o <<"-">> \o Padded(DateOf(t).month, 2)
        \o <<"-">> \o Padded(DateOf(t).day, 2)

(* C13 as stated: for every title, Post::slug returns a String, which is the *)
(* slugified first min(26, number of characters) characters of the title     *)
(* followed by the date -YYYY-MM-DD: the cut counts characters, not bytes,   *)
(* and falls inside no character.                                            *)
C13_Original ==
    probe.out # None
        => /\ ~probe.out[1].panics
           /\ probe.out[1].slug =
                 Slugify(SubSeq(probe.title, 1,
                                IF Len(probe.title) < 26 THEN Len(probe.title) ELSE 26))
                     \o DateText(probe.published)

(* C14: in a sequential execution on a storage that does not fail of itself, *)
(* no publish and no update answers with an error, and the slug a request    *)
(* inserts was no row of the slug table before: no insert breaks the         *)
(* uniqueness of the slug, on the publish path and on the update path (base  *)
(* and base-n alike).                                                        *)
C14_MintedSlugIsFresh ==
    [][/\ last'.status # "error"
       /\ last'.minted
            => /\ last'.slug[1] \notin DOMAIN slug
               /\ DOMAIN slug' = DOMAIN slug \cup {last'.slug[1]}]_vars

C14_Witness ==
    /\ last.op = "update" /\ last.status = "ok" /\ last.minted
    /\ last.slug[1] = Slug(post[last.id]) \o <<"-", "1">>
    /\ \E k \in DOMAIN slug : k # Slug(post[last.id]) /\ k # last.slug[1]
            /\ Len(k) > Len(last.slug[1]) /\ IsPrefix(Slug(post[last.id]), k)

\* The strings the similar slugs are counted for: the base slugs of the
\* requests, and shorter prefixes of them.
Candidates ==
    {SlugText(req.title, t) : req \in SeqRequests, t \in 0..MaxTime} \cup {<<>>, <<"a">>}

(* C16 as stated: the count of the similar slugs of a candidate is the       *)
(* number of slug rows that have the candidate as a prefix.                  *)
C16_Original ==
    \A c \in Candidates :
        CountIdsWithSimilarSlugs(DB, c)
            = Cardinality({k \in DOMAIN slug : IsPrefix(c, k)})

(* C16 amended: the count of the similar slugs of a candidate is the number  *)
(* of posts that own a slug row with the candidate as a prefix; a post with  *)
(* several such rows counts once.                                            *)
C16_CountsOwners ==
    \A c \in Candidates :
        CountIdsWithSimilarSlugs(DB, c)
            = Cardinality({i \in DOMAIN post : SimilarOf(DB, i, c) # {}})

C16_Witness ==
    \E c \in Candidates, i \in DOMAIN post :
        /\ Cardinality(SimilarOf(DB, i, c)) >= 2
        /\ \E j \in DOMAIN post : j # i /\ SimilarOf(DB, j, c) # {}
        /\ last.op = "publish" /\ last.status = "ok" /\ IsPrefix(c, last.slug[1])

\* The step is a committed update that keeps the title of the post, on a
\* calendar date other than the date of the post's timestamp.
RestampStep ==
    /\ UpdatedStep
    /\ last'.req[1].title = post[last'.id].title
    /\ DateOf(now') # DateOf(post[last'.id].published)

(* C17 as stated: an update that keeps the title on a later calendar date    *)
(* stores the instant of the update as the post's timestamp, returns a slug  *)
(* that starts with the base slug of the new date and was no row before, and *)
(* the slug that was canonical redirects to it.                              *)
C17_Original ==
    [][RestampStep
       => /\ post'[last'.id].published = now'
          /\ IsPrefix(SlugText(post[last'.id].title, now'), last'.slug[1])
          /\ last'.slug[1] \notin DOMAIN slug
          /\ last'.was # None
          /\ Redirects(DB', last'.was[1], last'.slug[1])]_vars

(* C17 amended: the same, for a post that owns no slug with the base slug of *)
(* the new date as a prefix.                                                 *)
C17_RestampMintsSlug ==
    [][(RestampStep /\ SimilarOf(DB, last'.id, SlugText(post[last'.id].title, now')) = {})
       => /\ post'[last'.id].published = now'
          /\ DateOf(post'[last'.id].published) # DateOf(post[last'.id].published)
          /\ IsPrefix(SlugText(post[last'.id].title, now'), last'.slug[1])
          /\ last'.slug[1] \notin DOMAIN slug
          /\ last'.was # None
          /\ Redirects(DB', last'.was[1], last'.slug[1])
          /\ Renders(DB', last'.slug[1], last'.id)]_vars

C17_Witness ==
    /\ last.op = "update" /\ last.status = "ok" /\ last.minted
    /\ Len(old) >= 1 /\ old[Len(old)].id = last.id
    /\ old[Len(old)].data[2] = post[last.id].title
    /\ DateOf(old[Len(old)].data[4]) # DateOf(post[last.id].published)
    /\ last.was # None /\ Redirects(DB, last.was[1], last.slug[1])

(* C19: after a publish or an update that answered with {id, slug}, the slug *)
(* of the answer is a row of the post id, it resolves to itself, and reading *)
(* it renders the post without a redirect.                                   *)
C19_ReturnedSlugIsCanonical ==
    last.status = "ok"
        => /\ last.slug[1] \in SlugsOf(DB, last.id)
           /\ Resolve(DB, last.slug[1]) = last.slug[1]
           /\ Renders(DB, last.slug[1], last.id)

C19_Witness ==
    /\ last.op = "update" /\ last.status = "ok" /\ ~last.minted
    /\ last.was # last.slug
    /\ Cardinality(SlugsOf(DB, last.id)) >= 2

(* C18: post_handler answers a slug that is no row with not-found; a row     *)
(* whose newslug is another slug with a permanent redirect to it, whether    *)
(* the post has a row or not; a row that is canonical with the post, or,     *)
(* when the post has no row, with the server error and not with not-found;   *)
(* and it changes no table.                                                  *)
C18_ReadClassifies ==
    [][probe'.out # None
       => LET s == probe'.slug
              r == probe'.out[1]
          IN  /\ post' = post /\ slug' = slug /\ old' = old
              /\ r.status \in {"not_found", "moved", "ok", "error"}
              /\ r.status = "not_found" <=> s \notin DOMAIN slug
              /\ r.status = "moved"
                    <=> s \in DOMAIN slug /\ slug[s].newslug \notin {None, Some(s)}
              /\ r.status = "moved" => r.location = slug[s].newslug /\ r.post = None
              /\ r.status = "ok"
                    <=> /\ s \in DOMAIN slug /\ slug[s].newslug \in {None, Some(s)}
                        /\ slug[s].id \in DOMAIN post
              /\ r.status = "ok" => r.post = Some(post[slug[s].id]) /\ r.location = None
              /\ r.status = "error"
                    <=> /\ s \in DOMAIN slug /\ slug[s].newslug \in {None, Some(s)}
                        /\ slug[s].id \notin DOMAIN post]_vars

C18_Witness ==
    /\ probe # NoProbe /\ probe.fn = "read" /\ probe.out # None
    /\ probe.out[1].status = "error"
    /\ probe.slug \in DOMAIN slug /\ slug[probe.slug].id \notin DOMAIN post
    /\ \E k \in DOMAIN slug : k # probe.slug /\ slug[k].newslug = Some(probe.slug)

-----------------------------------------------------------------------------
\* The step commits the update of connection c.
UpdateCommits(c) ==
    conns[c].op = "update" /\ Active(conns[c]) /\ conns'[c].status = "ok"

(* C11: in every step of concurrent publish and update transactions, each    *)
(* row of the slug table, committed or in the view of a transaction that     *)
(* goes on, stays a row and keeps its post: no slug is deleted, overwritten  *)
(* or given to another post, so a slug of post P is a slug of P ever after.  *)
C11_SlugOwnerStable ==
    [][/\ \A s \in DOMAIN slug : s \in DOMAIN slug' /\ slug'[s].id = slug[s].id
       /\ \A c \in Conns :
            (conns[c].w # None /\ conns'[c].w # None)
                => \A s \in DOMAIN conns[c].w[1].slug :
                      /\ s \in DOMAIN conns'[c].w[1].slug
                      /\ conns'[c].w[1].slug[s].id = conns[c].w[1].slug[s].id]_vars

C11_Witness ==
    \E c1, c2 \in DOMAIN conns :
        /\ c1 # c2 /\ conns[c1].concurrent /\ conns[c2].concurrent
        /\ conns[c1].op = "publish" /\ conns[c1].status = "ok"
        /\ conns[c2].op = "update" /\ conns[c2].status = "ok"
        /\ conns[c1].final[1] \in SlugsOf(DB, conns[c1].id)
        /\ \E s \in SlugsOf(DB, conns[c2].id) : Redirects(DB, s, conns[c2].final[1])

(* C12: the answer of a read by slug is the answer post_handler gives in one *)
(* database that was committed while the read ran: its slug lookup and its   *)
(* post fetch see the same committed state, the one before or the one after  *)
(* a concurrent commit, and never the writes of a transaction in flight.     *)
C12_ReadSeesOneCommit ==
    \A c \in DOMAIN conns :
        /\ (conns[c].op = "read" /\ conns[c].w # None) => conns[c].w[1] \in conns[c].seen
        /\ conns[c].answer # None
              => \E db \in conns[c].seen :
                    conns[c].answer[1] = PostHandler(db, conns[c].path[1])

C12_Witness ==
    \E c \in DOMAIN conns :
        /\ conns[c].answer # None /\ conns[c].answer[1].status = "ok"
        /\ \E db \in conns[c].seen : PostHandler(db, conns[c].path[1]).status = "moved"
        /\ PostHandler(DB, conns[c].path[1]).status = "moved"

C20_ArchiveSuccessive ==
    [][\A c \in DOMAIN conns :
          UpdateCommits(c)
              => /\ old' = Append(old, [id |-> conns[c].id,
                                        data |-> ToJson(post[conns[c].id])])
                 /\ conns[c].existing = Some(post[conns[c].id])
                 /\ post'[conns[c].id] = NewPost(conns[c].id, conns[c].req[1], now)]_vars

C20_Witness ==
    \E c1, c2 \in DOMAIN conns :
        /\ c1 # c2 /\ conns[c1].concurrent /\ conns[c2].concurrent
        /\ conns[c1].op = "update" /\ conns[c1].status = "ok"
        /\ conns[c2].op = "update" /\ conns[c2].status = "ok"
        /\ conns[c1].id = conns[c2].id /\ conns[c1].req # conns[c2].req
        /\ Len(old) = 2
        /\ old[2].data = ToJson(NewPost(conns[c1].id, conns[c1].req[1], now))
        /\ old[1].data # old[2].data
        /\ post[conns[c2].id] = NewPost(conns[c2].id, conns[c2].req[1], now)

-----------------------------------------------------------------------------
\* The archive rows of the posts other than id.
ArchiveOfOthers(o, id) == SelectSeq(o, LAMBDA r : r.id # id)

(* C21: a publish or update of post P leaves every slug row of another post  *)
(* as it was (its post and its newslug), gives no other post a slug row,     *)
(* leaves the post row and the archive rows of every other post as they      *)
(* were, and changes the newslug only of rows of P.                          *)
C21_OtherPostsUntouched ==
    [][/\ \A s \in DOMAIN slug :
            slug[s].id # last'.id => s \in DOMAIN slug' /\ slug'[s] = slug[s]
       /\ \A s \in DOMAIN slug' : slug'[s].id # last'.id => s \in DOMAIN slug
       /\ \A s \in DOMAIN slug \cap DOMAIN slug' :
            slug'[s].newslug # slug[s].newslug => slug[s].id = last'.id
       /\ \A i \in DOMAIN post :
            i # last'.id => i \in DOMAIN post' /\ post'[i] = post[i]
       /\ ArchiveOfOthers(old', last'.id) = ArchiveOfOthers(old, last'.id)]_vars

C21_Witness ==
    /\ last.op = "update" /\ last.status = "ok" /\ last.minted
    /\ Cardinality(SlugsOf(DB, last.id)) >= 2
    /\ \E s \in DOMAIN slug :
          /\ slug[s].id # last.id /\ slug[s].newslug = None
          /\ IsPrefix(s, last.slug[1])
          /\ post[slug[s].id].title = post[last.id].title

====
